---- MODULE Spec2Model ----
(***************************************************************************)
(* The test-attempt session lifecycle of the quiz dashboard: student login *)
(* (TestLogin.tsx and pages/test/[id].tsx), the timed attempt page and its *)
(* scoring submission (the two TestAttempt components), all talking to one *)
(* shared data store.  Every await on the data store is an interleaving    *)
(* point: an action runs a handler from one await to the next.             *)
(***************************************************************************)
EXTENDS Integers, Sequences, FiniteSets, TLC

\* ------------------------------------------------------------ universe
\* Rows the data store can hold and browser tabs that can be open.
Tests == {"t1", "t2"}
Students == {"s1", "s2"}
Clients == {"c1", "c2"}

\* A missing sessionStorage item, a null React state, an unmatched row.
NoValue == "null"
\* The null of a numeric field (session id, completed score).
NullId == 0

\* Cap on the rows of test_sessions (inserts stop at the cap).
MaxRows == 2
\* Largest question list and number of options of a question.
MaxQuestions == 2
NumOptions == 2
\* The countdown is duration_minutes * 60 one-second ticks in the source;
\* the model's minute has SecondsPerMinute ticks.
SecondsPerMinute == 2
\* Largest duration_minutes of a test.
MaxDuration == 2
\* Instants new Date() can return; a window bound that is set starts at
\* WindowTime and ends WindowLength later.
MaxTime == 4
WindowTime == 1
WindowLength == 2
NoTime == -1

Times == 0..MaxTime
Options == 0..(NumOptions - 1)
\* answers[i] of a slot never written (part_000 starts from []), and the
\* sentinel part_001 fills the vector with.
Undefined == -2
Sentinel == -1

VARIABLES
    tests,            \* table tests: id -> row (read-only in this flow)
    students,         \* table students: id -> [has_taken_test]
    test_sessions,    \* table test_sessions: sequence of rows, id = index
    sessionStorage,   \* per tab: the four stored items
    page,             \* per tab: the mounted page component
    testId,           \* per tab: the :id route parameter
    login,            \* per tab: the login page's handleSubmit in flight
    verifyPending,    \* per tab: [id].tsx verifyTest awaiting its response
    att,              \* per tab: the attempt component's React state
    subs,             \* per tab: handleSubmit invocations awaiting the store
    clock,            \* what new Date() returns
    toast             \* per tab: the description of the last toast of a
                      \* page load or of a submission

vars == <<tests, students, test_sessions, sessionStorage, page, testId,
          login, verifyPending, att, subs, clock, toast>>

\* ------------------------------------------------------------ data store

\* .single(): the row when exactly one matches; otherwise error PGRST116
\* (no row, or more than one) and no data.
Single(ids) ==
    IF Cardinality(ids) = 1 THEN CHOOSE i \in ids : TRUE ELSE NullId

SessionIds == 1..Len(test_sessions)

\* [id].tsx: .eq(test_id).eq(student_id).is(completed_at, null)
OpenSessionsOf(t, s) ==
    {i \in SessionIds : /\ test_sessions[i].test_id = t
                        /\ test_sessions[i].student_id = s
                        /\ ~test_sessions[i].completed_at}

\* TestLogin.tsx: .eq(test_id).eq(student_id), completed or not
AnySessionsOf(t, s) ==
    {i \in SessionIds : /\ test_sessions[i].test_id = t
                        /\ test_sessions[i].student_id = s}

\* part_000 verifySession: .eq(id).eq(student_id).eq(test_id).is(completed_at, null)
VerifiedSessions(sid, s, t) ==
    {i \in SessionIds : /\ i = sid
                        /\ test_sessions[i].student_id = s
                        /\ test_sessions[i].test_id = t
                        /\ ~test_sessions[i].completed_at}

\* insert({test_id, student_id, started_at}): a new open row, id generated
NewSession(t, s) ==
    [test_id |-> t, student_id |-> s, completed_at |-> FALSE,
     total_score |-> NullId - 1, total_questions |-> NullId - 1]

\* The (email, password) pair typed in the form: some student's, or no row's.
Credentials == Students \cup {NoValue}

\* A lookup that finds a student row for any pair.
StudentByCredentials_anyPair(cred) ==
    IF cred \in Students THEN cred ELSE CHOOSE s \in Students : TRUE

\* .from("students").eq(email).eq(password).single()
StudentByCredentials(cred) ==
    IF cred \in Students THEN cred ELSE NoValue

\* data.start_time && new Date(data.start_time) > now
NotStarted(t, now) ==
    tests[t].start_time # NoTime /\ tests[t].start_time > now
\* data.end_time && new Date(data.end_time) < now
Ended(t, now) ==
    tests[t].end_time # NoTime /\ tests[t].end_time < now

\* The checks [id].tsx's verifyTest and part_000's fetchTest make on the
\* test row at the instant now, as the toast they end with ("none": passed).
LoadRefusal(t, ok, now) ==
    IF ~ok THEN "error"
    ELSE IF ~tests[t].is_active THEN "Inactive"
    ELSE IF NotStarted(t, now) THEN "NotStarted"
    ELSE IF Ended(t, now) THEN "Ended"
    ELSE "none"

\* TestLogin.tsx checks the window only when both bounds are set.
OutsideWindowBoth(t, now) ==
    /\ tests[t].start_time # NoTime
    /\ tests[t].end_time # NoTime
    /\ (now < tests[t].start_time \/ now > tests[t].end_time)

\* ------------------------------------------------------------ tab state

EmptyStorage ==
    [sessionId |-> NullId, studentId |-> NoValue,
     studentName |-> NoValue, testId |-> NoValue]

\* The login form's handleSubmit: where it is, its locals (student, testId,
\* sessionId), how it ended, the instant of the submit event and the
\* formData it was submitted with.
IdleLogin ==
    [pc |-> "idle", test |-> NoValue, student |-> NoValue,
     sessionId |-> NullId, result |-> "none", at |-> 0, cred |-> NoValue]

\* useState defaults of TestAttempt: test null (pc says how far the load
\* got), question 0, answers [], timeLeft 0, submitting false, sessionId
\* null.  timerOn and timerAnswers are the interval of the timer effect and
\* the answers its handleSubmit closure captured; student is the student the
\* login handler had authenticated when it navigated here (nobody when the
\* page was opened by its address).
NoAttempt ==
    [pc |-> "none", currentQuestion |-> 0, answers |-> <<>>, timeLeft |-> 0,
     timerOn |-> FALSE, timerAnswers |-> <<>>, submitting |-> FALSE,
     sessionId |-> NullId, student |-> NoValue]

\* The attempt component as a navigation mounts it.
Mounted(pc, s) == [NoAttempt EXCEPT !.pc = pc, !.student = s]

\* No handler of this tab is awaiting the data store.
Quiet(c) ==
    /\ page[c] # "closed"
    /\ login[c].pc = "idle"
    /\ ~verifyPending[c]
    /\ subs[c] = <<>>
    /\ att[c].pc \in {"none", "ready", "failed", "crashed"}

\* JS array read: a slot past the end, or a hole, is undefined.
At(a, i) == IF i \in 1..Len(a) THEN a[i] ELSE Undefined

\* A write that lands one slot further.
SetAt_nextSlot(a, q, v) ==
    [i \in 1..(IF q + 2 > Len(a) THEN q + 2 ELSE Len(a)) |->
        IF i = q + 2 THEN v ELSE At(a, i)]

\* newAnswers = [...answers]; newAnswers[q] = v   (q counts from 0)
SetAt(a, q, v) ==
    [i \in 1..(IF q + 1 > Len(a) THEN q + 1 ELSE Len(a)) |->
        IF i = q + 1 THEN v ELSE At(a, i)]

\* questions.reduce((total, question, index) =>
\*     total + (answers[index] === question.correct_answer ? 1 : 0), 0)
RECURSIVE ScoreUpTo(_, _, _)
ScoreUpTo(questions, answers, n) ==
    IF n = 0 THEN 0
    ELSE ScoreUpTo(questions, answers, n - 1)
         + (IF At(answers, n) = questions[n] THEN 1 ELSE 0)

\* A scorer that takes a slot without an answer for a correct one.
RECURSIVE ScoreLenientUpTo(_, _, _)
ScoreLenientUpTo(questions, answers, n) ==
    IF n = 0 THEN 0
    ELSE ScoreLenientUpTo(questions, answers, n - 1)
         + (IF At(answers, n) = questions[n] \/ At(answers, n) < 0 THEN 1 ELSE 0)

Score_countsUnanswered(questions, answers) ==
    ScoreLenientUpTo(questions, answers, Len(questions))

Score(questions, answers) == ScoreUpTo(questions, answers, Len(questions))

\* A vector that starts with option 0 chosen everywhere.
Filled_answered(n) == [i \in 1..n |-> 0]

\* new Array(n).fill(-1)
Filled(n) == [i \in 1..n |-> Sentinel]

Remove(seq, k) == [i \in 1..(Len(seq) - 1) |-> IF i < k THEN seq[i] ELSE seq[i + 1]]

\* ------------------------------------------------------------ TestLogin.tsx

\* fetchTestInfo: the test row decides between the form and the home page.
TestLogin_fetchTestInfo(c) ==
    \E ok \in BOOLEAN :
        LET t == testId[c]
            now == clock
            reason == IF ~ok THEN "error"
                      ELSE IF ~tests[t].is_active THEN "Inactive"
                      ELSE IF OutsideWindowBoth(t, now) /\ now < tests[t].start_time
                           THEN "NotStarted"
                      ELSE IF OutsideWindowBoth(t, now) THEN "Ended"
                      ELSE "none"
        IN  /\ page' = [page EXCEPT ![c] = IF reason # "none" THEN "home" ELSE "login"]
            /\ toast' = [toast EXCEPT ![c] = IF reason # "none" THEN reason ELSE @]
            /\ login' = [login EXCEPT ![c] = IdleLogin]
            /\ UNCHANGED <<tests, clock, students, test_sessions, sessionStorage,
                           testId, verifyPending, att, subs>>

\* The mount effect: a stored studentId for this test forwards to the
\* attempt page, anything else loads the test information.
TestLogin_mount(c) ==
    /\ page[c] = "login"
    /\ login[c].pc = "mount"
    /\ IF /\ sessionStorage[c].studentId # NoValue
          /\ sessionStorage[c].testId = testId[c]
       THEN /\ page' = [page EXCEPT ![c] = "attempt"]
            /\ att' = [att EXCEPT ![c] = Mounted("verify", NoValue)]
            /\ login' = [login EXCEPT ![c] = IdleLogin]
            /\ UNCHANGED <<tests, clock, toast, students, test_sessions, sessionStorage,
                           testId, verifyPending, subs>>
       ELSE TestLogin_fetchTestInfo(c)

\* handleSubmit up to the session query: the test must be active ("Failed
\* to verify test status" when the read fails) and the credentials must
\* match one student row: .single() answers no row with an error, so an
\* unknown pair and a failed read both end in "Failed to verify student
\* credentials".
TestLogin_handleSubmit(c, cred) ==
    /\ page[c] = "login"
    /\ login[c].pc = "idle"
    /\ \E ok \in BOOLEAN, okStudent \in BOOLEAN :
        LET t == testId[c]
            s == StudentByCredentials(cred)
            r == IF ~ok THEN "error"
                 ELSE IF ~tests[t].is_active THEN "Inactive"
                 ELSE IF ~okStudent \/ s = NoValue THEN "CredentialsFailed"
                 ELSE "pending"
        IN  login' = [login EXCEPT ![c] =
                IF r = "pending"
                THEN [pc |-> "session", test |-> t, student |-> s,
                      sessionId |-> NullId, result |-> "none", at |-> clock,
                      cred |-> cred]
                ELSE [IdleLogin EXCEPT !.test = t, !.result = r, !.at = clock,
                                       !.cred = cred]]
    /\ UNCHANGED <<tests, clock, toast, students, test_sessions, sessionStorage, page,
                   testId, verifyPending, att, subs>>

\* "Check if student has already taken the test": any session row of this
\* student on this test, completed or not, refuses the login.
TestLogin_checkSession(c) ==
    /\ login[c].pc = "session"
    /\ \E ok \in BOOLEAN :
        LET existing == Single(AnySessionsOf(login[c].test, login[c].student))
        IN  login' = [login EXCEPT ![c] =
                IF ~ok THEN [@ EXCEPT !.pc = "idle", !.result = "error"]
                ELSE IF existing # NullId
                     THEN [@ EXCEPT !.pc = "idle", !.result = "AlreadyTaken"]
                ELSE [@ EXCEPT !.pc = "insert"]]
    /\ UNCHANGED <<tests, clock, toast, students, test_sessions, sessionStorage, page,
                   testId, verifyPending, att, subs>>

\* insert the session, store the four items, go to the attempt page
TestLogin_insertSession(c) ==
    /\ login[c].pc = "insert"
    /\ \E ok \in (IF Len(test_sessions) < MaxRows THEN BOOLEAN ELSE {FALSE}) :
        LET t == login[c].test
            s == login[c].student
            id == Len(test_sessions) + 1
        IN  IF ok
            THEN /\ test_sessions' = Append(test_sessions, NewSession(t, s))
                 /\ sessionStorage' = [sessionStorage EXCEPT ![c] =
                        [sessionId |-> id, studentId |-> s,
                         studentName |-> s, testId |-> t]]
                 /\ login' = [login EXCEPT ![c] =
                        [@ EXCEPT !.pc = "idle", !.sessionId = id, !.result = "ok"]]
                 /\ page' = [page EXCEPT ![c] = "attempt"]
                 /\ testId' = [testId EXCEPT ![c] = t]
                 /\ att' = [att EXCEPT ![c] = Mounted("verify", s)]
            ELSE /\ login' = [login EXCEPT ![c] =
                        [@ EXCEPT !.pc = "idle", !.result = "error"]]
                 /\ UNCHANGED <<test_sessions, sessionStorage, page, testId, att>>
    /\ UNCHANGED <<tests, clock, toast, students, verifyPending, subs>>

\* ------------------------------------------------------------ pages/test/[id].tsx

\* verifyTest, started by the mount effect: a missing, inactive, not yet
\* started or ended test sends the tab to the home page.
TestLoginNext_verifyTest(c) ==
    /\ verifyPending[c]
    /\ \E ok \in BOOLEAN :
        LET reason == LoadRefusal(testId[c], ok, clock)
        IN  IF reason # "none"
            THEN /\ page' = [page EXCEPT ![c] = "home"]
                 /\ att' = [att EXCEPT ![c] = NoAttempt]
                 /\ toast' = [toast EXCEPT ![c] = reason]
            ELSE UNCHANGED <<page, att, toast>>
    /\ verifyPending' = [verifyPending EXCEPT ![c] = FALSE]
    /\ UNCHANGED <<tests, clock, students, test_sessions, sessionStorage, testId,
                   login, subs>>

\* handleSubmit up to the session query: credentials ("Invalid credentials"
\* for no row and for a failed read alike), then has_taken_test.
TestLoginNext_handleSubmit(c, cred) ==
    /\ page[c] = "loginNext"
    /\ login[c].pc = "idle"
    /\ \E ok \in BOOLEAN :
        LET t == testId[c]
            s == StudentByCredentials(cred)
            r == IF ~ok \/ s = NoValue THEN "InvalidCredentials"
                 ELSE IF students[s].has_taken_test THEN "AlreadyTaken"
                 ELSE "pending"
        IN  login' = [login EXCEPT ![c] =
                IF r = "pending"
                THEN [pc |-> "sessionNext", test |-> t, student |-> s,
                      sessionId |-> NullId, result |-> "none", at |-> clock,
                      cred |-> cred]
                ELSE [IdleLogin EXCEPT !.test = t, !.result = r, !.at = clock,
                                       !.cred = cred]]
    /\ UNCHANGED <<tests, clock, toast, students, test_sessions, sessionStorage, page,
                   testId, verifyPending, att, subs>>

\* "Check if there's already an active session": one open row is reused.
TestLoginNext_checkSession(c) ==
    /\ login[c].pc = "sessionNext"
    /\ \E ok \in BOOLEAN :
        LET existing == Single(OpenSessionsOf(login[c].test, login[c].student))
        IN  IF ok /\ existing # NullId
            THEN /\ login' = [login EXCEPT ![c] =
                        [@ EXCEPT !.pc = "idle", !.sessionId = existing,
                                  !.result = "ok"]]
                 /\ page' = [page EXCEPT ![c] = "attemptNext"]
                 /\ testId' = [testId EXCEPT ![c] = login[c].test]
                 /\ att' = [att EXCEPT ![c] = Mounted("fetch", login[c].student)]
            ELSE /\ login' = [login EXCEPT ![c] =
                        IF ~ok THEN [@ EXCEPT !.pc = "idle", !.result = "error"]
                        ELSE [@ EXCEPT !.pc = "insertNext"]]
                 /\ UNCHANGED <<page, testId, att>>
    /\ UNCHANGED <<tests, clock, toast, students, test_sessions, sessionStorage,
                   verifyPending, subs>>

\* insert the session and go to the attempt page (nothing is stored)
TestLoginNext_insertSession(c) ==
    /\ login[c].pc = "insertNext"
    /\ \E ok \in (IF Len(test_sessions) < MaxRows THEN BOOLEAN ELSE {FALSE}) :
        LET t == login[c].test
            s == login[c].student
            id == Len(test_sessions) + 1
        IN  IF ok
            THEN /\ test_sessions' = Append(test_sessions, NewSession(t, s))
                 /\ login' = [login EXCEPT ![c] =
                        [@ EXCEPT !.pc = "idle", !.sessionId = id, !.result = "ok"]]
                 /\ page' = [page EXCEPT ![c] = "attemptNext"]
                 /\ testId' = [testId EXCEPT ![c] = t]
                 /\ att' = [att EXCEPT ![c] = Mounted("fetch", s)]
            ELSE /\ login' = [login EXCEPT ![c] =
                        [@ EXCEPT !.pc = "idle", !.result = "error"]]
                 /\ UNCHANGED <<test_sessions, page, testId, att>>
    /\ UNCHANGED <<tests, clock, toast, students, sessionStorage, verifyPending, subs>>

\* ------------------------------------------------------------ part_000 (TestAttempt, stored session)

\* The test a mounted attempt component was given by its route.
Questions(c) == tests[testId[c]].questions

\* The synchronous start of handleSubmit: setSubmitting(true), the score of
\* the answers its closure sees, and the session update sent to the store.
Attempt_handleSubmit(c, answers) ==
    /\ subs' = [subs EXCEPT ![c] = Append(@,
            [kind |-> "byId", pc |-> "session", test |-> testId[c],
             sessionId |-> att[c].sessionId, studentId |-> NoValue,
             score |-> Score(Questions(c), answers),
             total |-> Len(Questions(c))])]

\* verifySession: the stored triple must be present and match an open
\* test_sessions row; otherwise back to the login page.
Attempt_verifySession(c) ==
    /\ page[c] = "attempt"
    /\ att[c].pc = "verify"
    /\ LET st == sessionStorage[c]
           t == testId[c]
           toLogin == /\ page' = [page EXCEPT ![c] = "login"]
                      /\ login' = [login EXCEPT ![c] = [IdleLogin EXCEPT !.pc = "mount"]]
                      /\ att' = [att EXCEPT ![c] = NoAttempt]
       IN  IF st.sessionId = NullId \/ st.studentId = NoValue \/ st.testId # t
           THEN /\ toLogin
                /\ toast' = [toast EXCEPT ![c] = "LoginRequired"]
                /\ UNCHANGED sessionStorage
           ELSE \E ok \in BOOLEAN :
                LET session == Single(VerifiedSessions(st.sessionId, st.studentId, t))
                IN  IF ~ok \/ session = NullId
                    THEN /\ toLogin
                         /\ toast' = [toast EXCEPT ![c] = "SessionExpired"]
                         /\ sessionStorage' = [sessionStorage EXCEPT ![c] = EmptyStorage]
                    ELSE /\ att' = [att EXCEPT ![c] =
                                [@ EXCEPT !.pc = "fetch", !.sessionId = st.sessionId,
                                          !.student = st.studentId]]
                         /\ login' = [login EXCEPT ![c] = IdleLogin]
                         /\ UNCHANGED <<page, sessionStorage, toast>>
    /\ UNCHANGED <<tests, clock, students, test_sessions, testId, verifyPending, subs>>

\* fetchTest: an inactive, not yet started or ended test (or a failed read)
\* goes home; otherwise the test is set and the countdown initialised.  The
\* render that follows reads test.questions[currentQuestion].text: with an
\* empty list it throws and the page stays blank ("crashed").
Attempt_fetchTest(c) ==
    /\ page[c] = "attempt"
    /\ att[c].pc = "fetch"
    /\ \E ok \in BOOLEAN :
        LET t == testId[c]
            reason == LoadRefusal(t, ok, clock)
        IN  IF reason # "none"
            THEN /\ page' = [page EXCEPT ![c] = "home"]
                 /\ att' = [att EXCEPT ![c] = NoAttempt]
                 /\ toast' = [toast EXCEPT ![c] = reason]
            ELSE /\ UNCHANGED toast
                 /\ att' = [att EXCEPT ![c] =
                        [@ EXCEPT !.pc = IF Len(tests[t].questions) = 0
                                         THEN "crashed" ELSE "ready",
                                  !.timeLeft = tests[t].duration_minutes * SecondsPerMinute,
                                  !.timerAnswers = att[c].answers]]
                 /\ UNCHANGED page
    /\ UNCHANGED <<tests, clock, students, test_sessions, sessionStorage, testId,
                   login, verifyPending, subs>>

\* The timer effect (deps [timeLeft]): while timeLeft > 0 an interval
\* counts down; at prev <= 1 it calls the handleSubmit of the render that
\* created it.  Each change of timeLeft re-creates the interval, which then
\* closes over that render's answers.
Attempt_timer(c) ==
    /\ page[c] = "attempt"
    /\ att[c].pc = "ready"
    /\ att[c].timeLeft > 0
    /\ IF att[c].timeLeft <= 1
       THEN /\ Attempt_handleSubmit(c, att[c].timerAnswers)
            /\ att' = [att EXCEPT ![c] = [@ EXCEPT !.timeLeft = 0, !.submitting = TRUE,
                                                   !.timerAnswers = <<>>]]
       ELSE /\ att' = [att EXCEPT ![c] = [@ EXCEPT !.timeLeft = @ - 1,
                                                   !.timerAnswers = att[c].answers]]
            /\ UNCHANGED subs
    /\ UNCHANGED <<tests, clock, toast, students, test_sessions, sessionStorage, page,
                   testId, login, verifyPending>>

Attempt_handleAnswer(c, answerIndex) ==
    /\ page[c] = "attempt"
    /\ att[c].pc = "ready"
    /\ att' = [att EXCEPT ![c] =
            [@ EXCEPT !.answers = SetAt(@, att[c].currentQuestion, answerIndex)]]
    /\ UNCHANGED <<tests, clock, toast, students, test_sessions, sessionStorage, page,
                   testId, login, verifyPending, subs>>

Attempt_handleNext(c) ==
    /\ page[c] = "attempt"
    /\ att[c].pc = "ready"
    /\ att[c].currentQuestion # Len(Questions(c)) - 1
    /\ att' = [att EXCEPT ![c] =
            IF att[c].currentQuestion < Len(Questions(c)) - 1
            THEN [@ EXCEPT !.currentQuestion = @ + 1] ELSE @]
    /\ UNCHANGED <<tests, clock, toast, students, test_sessions, sessionStorage, page,
                   testId, login, verifyPending, subs>>

Attempt_handlePrevious(c) ==
    /\ page[c] = "attempt"
    /\ att[c].pc = "ready"
    /\ att[c].currentQuestion # 0
    /\ att' = [att EXCEPT ![c] =
            IF att[c].currentQuestion > 0
            THEN [@ EXCEPT !.currentQuestion = @ - 1] ELSE @]
    /\ UNCHANGED <<tests, clock, toast, students, test_sessions, sessionStorage, page,
                   testId, login, verifyPending, subs>>

\* The Submit Test button: shown on the last question, disabled while submitting.
Attempt_clickSubmit(c) ==
    /\ page[c] = "attempt"
    /\ att[c].pc = "ready"
    /\ att[c].currentQuestion = Len(Questions(c)) - 1
    /\ ~att[c].submitting
    /\ Attempt_handleSubmit(c, att[c].answers)
    /\ att' = [att EXCEPT ![c] = [@ EXCEPT !.submitting = TRUE]]
    /\ UNCHANGED <<tests, clock, toast, students, test_sessions, sessionStorage, page,
                   testId, login, verifyPending>>

\* A failure path that also forgets the answers given so far.
SubmitFailed_dropsAnswers(c, k) ==
    /\ subs' = [subs EXCEPT ![c] = Remove(@, k)]
    /\ att' = [att EXCEPT ![c] = [@ EXCEPT !.submitting = FALSE, !.answers = <<>>]]
    /\ toast' = [toast EXCEPT ![c] = "SubmitFailed"]
    /\ UNCHANGED <<page, testId>>

\* catch + finally of handleSubmit: the toast, setSubmitting(false)
SubmitFailed(c, k) ==
    /\ subs' = [subs EXCEPT ![c] = Remove(@, k)]
    /\ att' = [att EXCEPT ![c] = [@ EXCEPT !.submitting = FALSE]]
    /\ toast' = [toast EXCEPT ![c] = "SubmitFailed"]
    /\ UNCHANGED <<page, testId>>

\* navigate("/test-complete") + finally
SubmitDone(c, k) ==
    /\ subs' = [subs EXCEPT ![c] = Remove(@, k)]
    /\ page' = [page EXCEPT ![c] = "complete"]
    /\ att' = [att EXCEPT ![c] = NoAttempt]
    /\ toast' = [toast EXCEPT ![c] = "Submitted"]
    /\ UNCHANGED testId

\* A handler that goes on to the student update whatever the session
\* update answered.
Attempt_updateSession_ignoresError(c, k) ==
    /\ k \in 1..Len(subs[c])
    /\ subs[c][k].kind = "byId"
    /\ subs[c][k].pc = "session"
    /\ sessionStorage[c].studentId # NoValue
    /\ \E ok \in BOOLEAN :
        LET inv == subs[c][k]
        IN  test_sessions' = [i \in SessionIds |->
                IF ok /\ i = inv.sessionId
                THEN [test_sessions[i] EXCEPT !.completed_at = TRUE,
                                              !.total_score = inv.score,
                                              !.total_questions = inv.total]
                ELSE test_sessions[i]]
    /\ subs' = [subs EXCEPT ![c][k] =
            [@ EXCEPT !.pc = "student", !.studentId = sessionStorage[c].studentId]]
    /\ UNCHANGED <<sessionStorage, page, testId, att, toast>>
    /\ UNCHANGED <<tests, clock, students, login, verifyPending>>

\* update(test_sessions).eq("id", sessionId), then the student id is read
\* from sessionStorage; with none stored the student update is skipped.
Attempt_updateSession(c, k) ==
    /\ k \in 1..Len(subs[c])
    /\ subs[c][k].kind = "byId"
    /\ subs[c][k].pc = "session"
    /\ \E ok \in BOOLEAN :
        LET inv == subs[c][k]
            studentId == sessionStorage[c].studentId
        IN  IF ~ok
            THEN SubmitFailed(c, k) /\ UNCHANGED <<test_sessions, sessionStorage>>
            ELSE /\ test_sessions' = [i \in SessionIds |->
                        IF i = inv.sessionId
                        THEN [test_sessions[i] EXCEPT !.completed_at = TRUE,
                                                      !.total_score = inv.score,
                                                      !.total_questions = inv.total]
                        ELSE test_sessions[i]]
                 /\ IF studentId # NoValue
                    THEN /\ subs' = [subs EXCEPT ![c][k] =
                                [@ EXCEPT !.pc = "student", !.studentId = studentId]]
                         /\ UNCHANGED <<sessionStorage, page, testId, att, toast>>
                    ELSE /\ SubmitDone(c, k)
                         /\ sessionStorage' = [sessionStorage EXCEPT ![c] = EmptyStorage]
    /\ UNCHANGED <<tests, clock, students, login, verifyPending>>

\* update(students).eq("id", studentId), then the stored items are removed
Attempt_updateStudent(c, k) ==
    /\ k \in 1..Len(subs[c])
    /\ subs[c][k].kind = "byId"
    /\ subs[c][k].pc = "student"
    /\ \E ok \in BOOLEAN :
        IF ~ok
        THEN SubmitFailed(c, k) /\ UNCHANGED <<students, sessionStorage>>
        ELSE /\ students' = [s \in DOMAIN students |->
                    IF s = subs[c][k].studentId
                    THEN [students[s] EXCEPT !.has_taken_test = TRUE]
                    ELSE students[s]]
             /\ sessionStorage' = [sessionStorage EXCEPT ![c] = EmptyStorage]
             /\ SubmitDone(c, k)
    /\ UNCHANGED <<tests, clock, test_sessions, login, verifyPending>>

\* ------------------------------------------------------------ part_001 (TestAttempt, no stored session)

\* The synchronous start of handleSubmit: the score of the answers its
\* closure sees, and the session update sent to the store.
AttemptNext_handleSubmit(c, answers) ==
    /\ subs' = [subs EXCEPT ![c] = Append(@,
            [kind |-> "byTest", pc |-> "session", test |-> testId[c],
             sessionId |-> NullId, studentId |-> NoValue,
             score |-> Score(Questions(c), answers),
             total |-> Len(Questions(c))])]

\* fetchTest, then the effect on [test]: the answers are filled with -1,
\* the countdown is set and the interval started; its handleSubmit is the
\* one of the render that set the test.  With an empty question list the
\* render throws on test.questions[currentQuestion].text: the page stays
\* blank and no interval survives ("crashed").
AttemptNext_fetchTest(c) ==
    /\ page[c] = "attemptNext"
    /\ att[c].pc = "fetch"
    /\ \E ok \in BOOLEAN :
        LET t == testId[c]
            n == Len(tests[t].questions)
        IN /\ att' = [att EXCEPT ![c] =
                IF ~ok THEN [@ EXCEPT !.pc = "failed"]
                ELSE [@ EXCEPT !.pc = IF n = 0 THEN "crashed" ELSE "ready",
                               !.answers = Filled(n),
                               !.timerAnswers = Filled(n),
                               !.timeLeft = tests[t].duration_minutes * SecondsPerMinute,
                               !.timerOn = (n > 0)]]
           /\ toast' = [toast EXCEPT ![c] = IF ~ok THEN "error" ELSE @]
    /\ login' = [login EXCEPT ![c] = IdleLogin]
    /\ UNCHANGED <<tests, clock, students, test_sessions, sessionStorage, page,
                   testId, verifyPending, subs>>

\* The interval: at prev <= 1 it clears itself and calls handleSubmit.
AttemptNext_timer(c) ==
    /\ page[c] = "attemptNext"
    /\ att[c].pc = "ready"
    /\ att[c].timerOn
    /\ IF att[c].timeLeft <= 1
       THEN /\ AttemptNext_handleSubmit(c, att[c].timerAnswers)
            /\ att' = [att EXCEPT ![c] = [@ EXCEPT !.timeLeft = 0, !.timerOn = FALSE,
                                                   !.timerAnswers = <<>>,
                                                   !.submitting = TRUE]]
       ELSE /\ att' = [att EXCEPT ![c] = [@ EXCEPT !.timeLeft = @ - 1]]
            /\ UNCHANGED subs
    /\ UNCHANGED <<tests, clock, toast, students, test_sessions, sessionStorage, page,
                   testId, login, verifyPending>>

AttemptNext_handleAnswer(c, answerIndex) ==
    /\ page[c] = "attemptNext"
    /\ att[c].pc = "ready"
    /\ att' = [att EXCEPT ![c] =
            [@ EXCEPT !.answers = SetAt(@, att[c].currentQuestion, answerIndex)]]
    /\ UNCHANGED <<tests, clock, toast, students, test_sessions, sessionStorage, page,
                   testId, login, verifyPending, subs>>

\* Next: shown before the last question, disabled while the current one is unanswered
AttemptNext_next(c) ==
    /\ page[c] = "attemptNext"
    /\ att[c].pc = "ready"
    /\ att[c].currentQuestion < Len(Questions(c)) - 1
    /\ At(att[c].answers, att[c].currentQuestion + 1) # Sentinel
    /\ att' = [att EXCEPT ![c] = [@ EXCEPT !.currentQuestion =
            IF @ + 1 < Len(Questions(c)) - 1 THEN @ + 1 ELSE Len(Questions(c)) - 1]]
    /\ UNCHANGED <<tests, clock, toast, students, test_sessions, sessionStorage, page,
                   testId, login, verifyPending, subs>>

AttemptNext_previous(c) ==
    /\ page[c] = "attemptNext"
    /\ att[c].pc = "ready"
    /\ att[c].currentQuestion # 0
    /\ att' = [att EXCEPT ![c] = [@ EXCEPT !.currentQuestion =
            IF @ - 1 > 0 THEN @ - 1 ELSE 0]]
    /\ UNCHANGED <<tests, clock, toast, students, test_sessions, sessionStorage, page,
                   testId, login, verifyPending, subs>>

\* The numbered buttons: setCurrentQuestion(index)
AttemptNext_jump(c, index) ==
    /\ page[c] = "attemptNext"
    /\ att[c].pc = "ready"
    /\ index \in 0..(Len(Questions(c)) - 1)
    /\ att' = [att EXCEPT ![c] = [@ EXCEPT !.currentQuestion = index]]
    /\ UNCHANGED <<tests, clock, toast, students, test_sessions, sessionStorage, page,
                   testId, login, verifyPending, subs>>

\* Submit Test: on the last question, disabled while submitting or while
\* some slot still holds -1.
AttemptNext_clickSubmit(c) ==
    /\ page[c] = "attemptNext"
    /\ att[c].pc = "ready"
    /\ ~(att[c].currentQuestion < Len(Questions(c)) - 1)
    /\ ~att[c].submitting
    /\ \A i \in 1..Len(att[c].answers) : att[c].answers[i] # Sentinel
    /\ AttemptNext_handleSubmit(c, att[c].answers)
    /\ att' = [att EXCEPT ![c] = [@ EXCEPT !.submitting = TRUE]]
    /\ UNCHANGED <<tests, clock, toast, students, test_sessions, sessionStorage, page,
                   testId, login, verifyPending>>

\* update(test_sessions).eq("test_id", testId)
AttemptNext_updateSession(c, k) ==
    /\ k \in 1..Len(subs[c])
    /\ subs[c][k].kind = "byTest"
    /\ subs[c][k].pc = "session"
    /\ \E ok \in BOOLEAN :
        LET inv == subs[c][k]
        IN  IF ~ok
            THEN SubmitFailed(c, k) /\ UNCHANGED test_sessions
            ELSE /\ test_sessions' = [i \in SessionIds |->
                        IF test_sessions[i].test_id = inv.test
                        THEN [test_sessions[i] EXCEPT !.completed_at = TRUE,
                                                      !.total_score = inv.score,
                                                      !.total_questions = inv.total]
                        ELSE test_sessions[i]]
                 /\ subs' = [subs EXCEPT ![c][k] = [@ EXCEPT !.pc = "student"]]
                 /\ UNCHANGED <<page, testId, att, toast>>
    /\ UNCHANGED <<tests, clock, students, sessionStorage, login, verifyPending>>

\* update(students).eq("id", testId)
AttemptNext_updateStudent(c, k) ==
    /\ k \in 1..Len(subs[c])
    /\ subs[c][k].kind = "byTest"
    /\ subs[c][k].pc = "student"
    /\ \E ok \in BOOLEAN :
        IF ~ok
        THEN SubmitFailed(c, k) /\ UNCHANGED students
        ELSE /\ students' = [s \in DOMAIN students |->
                    IF s = subs[c][k].test
                    THEN [students[s] EXCEPT !.has_taken_test = TRUE]
                    ELSE students[s]]
             /\ SubmitDone(c, k)
    /\ UNCHANGED <<tests, clock, test_sessions, sessionStorage, login, verifyPending>>

\* ------------------------------------------------------------ the user

\* The user opens /test/:id of the react-router app (TestLogin.tsx mounts).
OpenLogin(c, t) ==
    /\ Quiet(c)
    /\ page' = [page EXCEPT ![c] = "login"]
    /\ testId' = [testId EXCEPT ![c] = t]
    /\ login' = [login EXCEPT ![c] = [IdleLogin EXCEPT !.pc = "mount"]]
    /\ att' = [att EXCEPT ![c] = NoAttempt]
    /\ toast' = [toast EXCEPT ![c] = "none"]
    /\ UNCHANGED <<tests, clock, students, test_sessions, sessionStorage,
                   verifyPending, subs>>

\* The user opens /test/:id of the Next app ([id].tsx mounts, verifyTest starts).
OpenLoginNext(c, t) ==
    /\ Quiet(c)
    /\ page' = [page EXCEPT ![c] = "loginNext"]
    /\ testId' = [testId EXCEPT ![c] = t]
    /\ login' = [login EXCEPT ![c] = IdleLogin]
    /\ verifyPending' = [verifyPending EXCEPT ![c] = TRUE]
    /\ att' = [att EXCEPT ![c] = NoAttempt]
    /\ toast' = [toast EXCEPT ![c] = "none"]
    /\ UNCHANGED <<tests, clock, students, test_sessions, sessionStorage, subs>>

\* The user opens /test/:id/attempt (part_000 mounts, verifySession starts).
OpenAttempt(c, t) ==
    /\ Quiet(c)
    /\ page' = [page EXCEPT ![c] = "attempt"]
    /\ testId' = [testId EXCEPT ![c] = t]
    /\ att' = [att EXCEPT ![c] = Mounted("verify", NoValue)]
    /\ login' = [login EXCEPT ![c] = IdleLogin]
    /\ toast' = [toast EXCEPT ![c] = "none"]
    /\ UNCHANGED <<tests, clock, students, test_sessions, sessionStorage,
                   verifyPending, subs>>

\* The user opens /test/:id/attempt of the Next app (part_001 mounts, fetchTest starts).
OpenAttemptNext(c, t) ==
    /\ Quiet(c)
    /\ page' = [page EXCEPT ![c] = "attemptNext"]
    /\ testId' = [testId EXCEPT ![c] = t]
    /\ att' = [att EXCEPT ![c] = Mounted("fetch", NoValue)]
    /\ login' = [login EXCEPT ![c] = IdleLogin]
    /\ toast' = [toast EXCEPT ![c] = "none"]
    /\ UNCHANGED <<tests, clock, students, test_sessions, sessionStorage,
                   verifyPending, subs>>

\* ------------------------------------------------------------ specification

\* A test row as an administrator can have created it; the joined
\* test_questions list may be empty.
TestRows ==
    [is_active : BOOLEAN,
     start_time : {NoTime, WindowTime},
     end_time : {NoTime, WindowTime + WindowLength},
     duration_minutes : 0..MaxDuration,
     questions : UNION {[1..n -> Options] : n \in 0..MaxQuestions}]

\* The state before anybody opens a page: students as handleManualSubmit
\* inserts them (has_taken_test defaults to false), no session, blank tabs.
InitWith(theTests, theStudents, openTabs) ==
    /\ tests \in [theTests -> TestRows]
    /\ students = [s \in theStudents |-> [has_taken_test |-> FALSE]]
    /\ test_sessions = <<>>
    /\ sessionStorage = [c \in Clients |-> EmptyStorage]
    /\ page = [c \in Clients |-> IF c \in openTabs THEN "blank" ELSE "closed"]
    /\ testId = [c \in Clients |-> NoValue]
    /\ login = [c \in Clients |-> IdleLogin]
    /\ verifyPending = [c \in Clients |-> FALSE]
    /\ att = [c \in Clients |-> NoAttempt]
    /\ subs = [c \in Clients |-> <<>>]
    /\ clock = 0
    /\ toast = [c \in Clients |-> "none"]

\* The user opening a page by its address.
UserOpens(c) ==
    \/ \E t \in DOMAIN tests : OpenLogin(c, t)
    \/ \E t \in DOMAIN tests : OpenLoginNext(c, t)
    \/ \E t \in DOMAIN tests : OpenAttempt(c, t)
    \/ \E t \in DOMAIN tests : OpenAttemptNext(c, t)

\* The two login pages (the Session Negotiator).
LoginSteps(c) ==
    \/ TestLogin_mount(c)
    \/ \E cred \in DOMAIN students \cup {NoValue} : TestLogin_handleSubmit(c, cred)
    \/ TestLogin_checkSession(c)
    \/ TestLogin_insertSession(c)
    \/ TestLoginNext_verifyTest(c)
    \/ \E cred \in DOMAIN students \cup {NoValue} : TestLoginNext_handleSubmit(c, cred)
    \/ TestLoginNext_checkSession(c)
    \/ TestLoginNext_insertSession(c)

\* What the user does on a loaded attempt page.
AnswerSteps(c) ==
    \/ \E a \in Options : Attempt_handleAnswer(c, a)
    \/ Attempt_handleNext(c)
    \/ Attempt_handlePrevious(c)
    \/ Attempt_clickSubmit(c)
    \/ \E a \in Options : AttemptNext_handleAnswer(c, a)
    \/ AttemptNext_next(c)
    \/ AttemptNext_previous(c)
    \/ \E i \in 0..(MaxQuestions - 1) : AttemptNext_jump(c, i)
    \/ AttemptNext_clickSubmit(c)

\* Page loads, timers and the store's answers to a submission.
AttemptSteps(c) ==
    \/ Attempt_verifySession(c)
    \/ Attempt_fetchTest(c)
    \/ Attempt_timer(c)
    \/ \E k \in 1..Len(subs[c]) : Attempt_updateSession(c, k)
    \/ \E k \in 1..Len(subs[c]) : Attempt_updateStudent(c, k)
    \/ AttemptNext_fetchTest(c)
    \/ AttemptNext_timer(c)
    \/ \E k \in 1..Len(subs[c]) : AttemptNext_updateSession(c, k)
    \/ \E k \in 1..Len(subs[c]) : AttemptNext_updateStudent(c, k)

Next ==
    \E c \in Clients :
        UserOpens(c) \/ LoginSteps(c) \/ AnswerSteps(c) \/ AttemptSteps(c)

\* Time passes: a later new Date() returns a later instant.
Tick ==
    /\ clock < MaxTime
    /\ clock' = clock + 1
    /\ UNCHANGED <<tests, students, test_sessions, sessionStorage, page, testId,
                   login, verifyPending, att, subs, toast>>

\* Tests of one minute without a time window and with the question list
\* [1, 0].
PlainTests ==
    \A t \in DOMAIN tests :
        /\ tests[t].start_time = NoTime
        /\ tests[t].end_time = NoTime
        /\ tests[t].duration_minutes = 1
        /\ tests[t].questions = <<1, 0>>

\* One tab, one student, one test that is active or not.
Init ==
    /\ InitWith({"t1"}, {"s1"}, {"c1"})
    /\ PlainTests

Spec == Init /\ [][Next]_vars

\* One tab, two students sharing one active test.
InitStudents ==
    /\ InitWith({"t1"}, {"s1", "s2"}, {"c1"})
    /\ PlainTests
    /\ tests["t1"].is_active

SpecStudents == InitStudents /\ [][Next]_vars

\* One tab, one student, two active tests.
InitTests ==
    /\ InitWith({"t1", "t2"}, {"s1"}, {"c1"})
    /\ PlainTests
    /\ \A t \in DOMAIN tests : tests[t].is_active

SpecTests == InitTests /\ [][Next]_vars

\* One tab, one student, one active test with any combination of window
\* bounds, and time passing.  (The specifications above hold the clock
\* still: their tests have no window, so no handler's outcome depends on
\* the instant.)
InitWindow ==
    /\ InitWith({"t1"}, {"s1"}, {"c1"})
    /\ tests["t1"].is_active
    /\ tests["t1"].duration_minutes = 1
    /\ tests["t1"].questions = <<1, 0>>

NextWindow == Next \/ Tick

SpecWindow == InitWindow /\ [][NextWindow]_vars

\* Two tabs logging in to one active test, up to the navigation to the
\* attempt page.
InitRace ==
    /\ InitWith({"t1"}, {"s1"}, {"c1", "c2"})
    /\ PlainTests
    /\ tests["t1"].is_active

NextRace ==
    \E c \in Clients :
        \/ \E t \in DOMAIN tests : OpenLogin(c, t)
        \/ \E t \in DOMAIN tests : OpenLoginNext(c, t)
        \/ LoginSteps(c)

SpecRace == InitRace /\ [][NextRace]_vars

\* A loaded attempt, as a login followed by the page load leaves it: one
\* open session of s1 on t1, tab c1 on either attempt component.
InitScorer ==
    /\ tests \in [{"t1"} -> TestRows]
    /\ Len(tests["t1"].questions) > 0
    /\ tests["t1"].is_active
    /\ tests["t1"].start_time = NoTime
    /\ tests["t1"].end_time = NoTime
    /\ students = [s \in {"s1"} |-> [has_taken_test |-> FALSE]]
    /\ test_sessions = <<NewSession("t1", "s1")>>
    /\ testId = [c \in Clients |-> IF c = "c1" THEN "t1" ELSE NoValue]
    /\ login = [c \in Clients |-> IdleLogin]
    /\ verifyPending = [c \in Clients |-> FALSE]
    /\ subs = [c \in Clients |-> <<>>]
    /\ clock = 0
    /\ toast = [c \in Clients |-> "none"]
    /\ LET n == Len(tests["t1"].questions)
           left == tests["t1"].duration_minutes * SecondsPerMinute
       IN  \/ /\ page = [c \in Clients |-> IF c = "c1" THEN "attempt" ELSE "closed"]
              /\ sessionStorage = [c \in Clients |->
                    IF c = "c1"
                    THEN [sessionId |-> 1, studentId |-> "s1",
                          studentName |-> "s1", testId |-> "t1"]
                    ELSE EmptyStorage]
              /\ att = [c \in Clients |->
                    IF c = "c1"
                    THEN [NoAttempt EXCEPT !.pc = "ready", !.timeLeft = left,
                                           !.sessionId = 1, !.student = "s1"]
                    ELSE NoAttempt]
           \/ /\ page = [c \in Clients |-> IF c = "c1" THEN "attemptNext" ELSE "closed"]
              /\ sessionStorage = [c \in Clients |-> EmptyStorage]
              /\ att = [c \in Clients |->
                    IF c = "c1"
                    THEN [NoAttempt EXCEPT !.pc = "ready", !.timeLeft = left,
                                           !.answers = Filled(n),
                                           !.timerAnswers = Filled(n),
                                           !.timerOn = TRUE, !.student = "s1"]
                    ELSE NoAttempt]

\* Answer selection, navigation, the Submit button, and the countdown of
\* the component whose vector starts filled with -1.
NextScorer ==
    \E c \in Clients : AnswerSteps(c) \/ AttemptNext_timer(c)

SpecScorer == InitScorer /\ [][NextScorer]_vars

\* A loaded attempt of any duration whose user answers and navigates but
\* never clicks Submit; the intervals fire as long as they are set.
InitCountdown ==
    /\ InitScorer
    /\ tests["t1"].questions = <<1, 0>>

NextCountdown ==
    \E c \in Clients :
        \/ \E a \in Options : Attempt_handleAnswer(c, a)
        \/ Attempt_handleNext(c)
        \/ Attempt_handlePrevious(c)
        \/ Attempt_timer(c)
        \/ \E a \in Options : AttemptNext_handleAnswer(c, a)
        \/ AttemptNext_next(c)
        \/ AttemptNext_previous(c)
        \/ \E i \in 0..(MaxQuestions - 1) : AttemptNext_jump(c, i)
        \/ AttemptNext_timer(c)

SpecCountdown ==
    /\ InitCountdown
    /\ [][NextCountdown]_vars
    /\ \A c \in Clients : WF_vars(Attempt_timer(c)) /\ WF_vars(AttemptNext_timer(c))

\* An attempt page just entered after a login: one open session of s1 on
\* t1, tab c1 on either attempt component, its load still to run.
InitAttempt ==
    /\ tests \in [{"t1"} -> TestRows]
    /\ tests["t1"].is_active
    /\ tests["t1"].start_time = NoTime
    /\ tests["t1"].end_time = NoTime
    /\ students = [s \in {"s1"} |-> [has_taken_test |-> FALSE]]
    /\ test_sessions = <<NewSession("t1", "s1")>>
    /\ testId = [c \in Clients |-> IF c = "c1" THEN "t1" ELSE NoValue]
    /\ login = [c \in Clients |-> IdleLogin]
    /\ verifyPending = [c \in Clients |-> FALSE]
    /\ subs = [c \in Clients |-> <<>>]
    /\ clock = 0
    /\ toast = [c \in Clients |-> "none"]
    /\ \/ /\ page = [c \in Clients |-> IF c = "c1" THEN "attempt" ELSE "closed"]
          /\ sessionStorage = [c \in Clients |->
                IF c = "c1"
                THEN [sessionId |-> 1, studentId |-> "s1",
                      studentName |-> "s1", testId |-> "t1"]
                ELSE EmptyStorage]
          /\ att = [c \in Clients |->
                IF c = "c1" THEN Mounted("verify", NoValue) ELSE NoAttempt]
       \/ /\ page = [c \in Clients |-> IF c = "c1" THEN "attemptNext" ELSE "closed"]
          /\ sessionStorage = [c \in Clients |-> EmptyStorage]
          /\ att = [c \in Clients |->
                IF c = "c1" THEN Mounted("fetch", NoValue) ELSE NoAttempt]

\* The user of an entered attempt page answers, navigates and reloads that
\* page, with the intervals firing; the Submit button is never clicked, so
\* the one submission is that of a countdown that ran out.
NextAttempt ==
    \E c \in Clients :
        \/ page[c] = "attempt" /\ OpenAttempt(c, testId[c])
        \/ page[c] = "attemptNext" /\ OpenAttemptNext(c, testId[c])
        \/ Attempt_verifySession(c)
        \/ Attempt_fetchTest(c)
        \/ AttemptNext_fetchTest(c)
        \/ \E a \in Options : Attempt_handleAnswer(c, a)
        \/ Attempt_handleNext(c)
        \/ Attempt_handlePrevious(c)
        \/ Attempt_timer(c)
        \/ \E a \in Options : AttemptNext_handleAnswer(c, a)
        \/ AttemptNext_next(c)
        \/ AttemptNext_previous(c)
        \/ \E i \in 0..(MaxQuestions - 1) : AttemptNext_jump(c, i)
        \/ AttemptNext_timer(c)
        \/ Attempt_updateSession(c, 1)
        \/ Attempt_updateStudent(c, 1)
        \/ AttemptNext_updateSession(c, 1)
        \/ AttemptNext_updateStudent(c, 1)

\* The data store answers the page's reads and a set interval fires.
SpecAttempt ==
    /\ InitAttempt
    /\ [][NextAttempt]_vars
    /\ \A c \in Clients :
        /\ WF_vars(Attempt_verifySession(c))
        /\ WF_vars(Attempt_fetchTest(c))
        /\ WF_vars(AttemptNext_fetchTest(c))
        /\ WF_vars(Attempt_timer(c))
        /\ WF_vars(AttemptNext_timer(c))
        /\ WF_vars(Attempt_updateSession(c, 1))
        /\ WF_vars(Attempt_updateStudent(c, 1))
        /\ WF_vars(AttemptNext_updateSession(c, 1))
        /\ WF_vars(AttemptNext_updateStudent(c, 1))

\* Tab c1 enters the login page or the attempt page of t1 with any
\* combination of the four stored items, present or absent, over a store
\* with no session, an open one or a completed one.
InitRedirect ==
    /\ tests \in [{"t1"} -> TestRows]
    /\ tests["t1"].start_time = NoTime
    /\ tests["t1"].end_time = NoTime
    /\ students = [s \in {"s1"} |-> [has_taken_test |-> FALSE]]
    /\ test_sessions \in {<<>>, <<NewSession("t1", "s1")>>,
                          <<[NewSession("t1", "s1") EXCEPT !.completed_at = TRUE]>>}
    /\ \E st \in [sessionId : {NullId, 1}, studentId : {NoValue, "s1"},
                  studentName : {NoValue, "s1"}, testId : {NoValue, "t1"}] :
        sessionStorage = [c \in Clients |-> IF c = "c1" THEN st ELSE EmptyStorage]
    /\ testId = [c \in Clients |-> IF c = "c1" THEN "t1" ELSE NoValue]
    /\ verifyPending = [c \in Clients |-> FALSE]
    /\ subs = [c \in Clients |-> <<>>]
    /\ clock = 0
    /\ toast = [c \in Clients |-> "none"]
    /\ \/ /\ page = [c \in Clients |-> IF c = "c1" THEN "login" ELSE "closed"]
          /\ login = [c \in Clients |->
                IF c = "c1" THEN [IdleLogin EXCEPT !.pc = "mount"] ELSE IdleLogin]
          /\ att = [c \in Clients |-> NoAttempt]
       \/ /\ page = [c \in Clients |-> IF c = "c1" THEN "attempt" ELSE "closed"]
          /\ login = [c \in Clients |-> IdleLogin]
          /\ att = [c \in Clients |->
                IF c = "c1" THEN Mounted("verify", NoValue) ELSE NoAttempt]

\* The effects that run when the login page and the attempt page mount.
NextRedirect ==
    \E c \in Clients :
        \/ TestLogin_mount(c)
        \/ Attempt_verifySession(c)
        \/ Attempt_fetchTest(c)

\* A mounted page's effect runs, and the data store answers its reads.
SpecRedirect ==
    /\ InitRedirect
    /\ [][NextRedirect]_vars
    /\ \A c \in Clients :
        /\ WF_vars(TestLogin_mount(c))
        /\ WF_vars(Attempt_verifySession(c))
        /\ WF_vars(Attempt_fetchTest(c))

\* ------------------------------------------------------------ claims

AttemptPages == {"attempt", "attemptNext"}

\* A successful submission of tab c ends in this step: the attempt page
\* gives way to /test-complete.
SubmissionCompletes(c) ==
    /\ page[c] \in AttemptPages
    /\ page'[c] = "complete"
    /\ att[c].student # NoValue

\* C1: no test_sessions row belongs to an inactive test (none exists at the
\* start, so none was inserted for one), and no login handler has ended
\* successfully on an inactive test.
C1_InactiveTestNeverLogsIn ==
    /\ \A i \in SessionIds : tests[test_sessions[i].test_id].is_active
    /\ \A c \in Clients :
        login[c].result = "ok" => tests[login[c].test].is_active

\* C2: a login handler never ends successfully (reusing or inserting a
\* session) for a student whose has_taken_test is true.
C2_TakenStudentNeverLogsIn ==
    \A c \in Clients :
        login[c].result = "ok" => ~students[login[c].student].has_taken_test

\* C3: when a login for a student who holds an open session on the test has
\* been decided by the session check, it has succeeded with the id of that
\* open session, and that session is still the only open one.
C3_ReloginReusesOpenSession ==
    \A c \in Clients :
        LET l == login[c]
        IN  ( /\ l.pc = "idle"
              /\ l.result \in {"ok", "AlreadyTaken"}
              /\ l.student \in DOMAIN students
              /\ ~students[l.student].has_taken_test
              /\ OpenSessionsOf(l.test, l.student) # {} )
            => /\ l.result = "ok"
               /\ OpenSessionsOf(l.test, l.student) = {l.sessionId}

\* C4: at most one open test_sessions row per (student, test).
C4_OneOpenSessionPerStudentTest ==
    \A t \in DOMAIN tests, s \in DOMAIN students :
        Cardinality(OpenSessionsOf(t, s)) <= 1

\* C5: within one attempt at most one handleSubmit invocation is awaiting
\* the data store: the timer and the button never both get a submission
\* through.
C5_OneSubmissionCall ==
    \A c \in Clients : Len(subs[c]) <= 1

\* The positions where an answer vector agrees with the correct answers,
\* and the positions it holds an answer at.
MatchingSlots(questions, answers) ==
    {i \in 1..Len(questions) : At(answers, i) = questions[i]}

AnsweredSlots(questions, answers) ==
    {i \in 1..Len(questions) : At(answers, i) \notin {Undefined, Sentinel}}

\* C6: the score a handleSubmit call computes is the number of positions
\* where the answers its closure sees equal the correct answers, and it
\* never exceeds the number of answered positions.
C6_ScoreCountsMatches ==
    [][\A c \in Clients :
        Len(subs'[c]) = Len(subs[c]) + 1 =>
            LET inv == subs'[c][Len(subs'[c])]
                byTimer == \/ att'[c].timeLeft # att[c].timeLeft
                           \/ att'[c].timerOn # att[c].timerOn
                seen == IF byTimer THEN att[c].timerAnswers ELSE att[c].answers
            IN  /\ inv.score = Cardinality(MatchingSlots(Questions(c), seen))
                /\ inv.score <= Cardinality(AnsweredSlots(Questions(c), seen))
                /\ inv.total = Len(Questions(c))]_vars

\* a submission in flight that scored 1 of 2 with the first slot never answered
C6_Witness ==
    \E c \in Clients :
        /\ Len(subs[c]) = 1
        /\ subs[c][1].score = 1
        /\ subs[c][1].total = 2
        /\ At(att[c].answers, 1) \in {Undefined, Sentinel}

\* C7: when a submission has succeeded, the student's session row on this
\* test is completed with the submission's score and the number of
\* questions, and the student's has_taken_test is true.
C7_SubmissionRecorded ==
    [][\A c \in Clients :
        SubmissionCompletes(c) =>
            \E k \in 1..Len(subs[c]) :
                /\ subs'[c] = Remove(subs[c], k)
                /\ students'[att[c].student].has_taken_test
                /\ \E i \in 1..Len(test_sessions') :
                    /\ test_sessions'[i].student_id = att[c].student
                    /\ test_sessions'[i].test_id = testId[c]
                    /\ test_sessions'[i].completed_at
                    /\ test_sessions'[i].total_score = subs[c][k].score
                    /\ test_sessions'[i].total_questions = Len(Questions(c))]_vars

\* C8: a step of a tab's submission leaves the test_sessions rows of every
\* student other than the one attempting on that tab unchanged.
C8_OtherSessionsUntouched ==
    [][\A c \in Clients :
        (subs'[c] # subs[c] /\ att[c].student # NoValue) =>
            \A i \in SessionIds :
                test_sessions[i].student_id # att[c].student
                    => test_sessions'[i] = test_sessions[i]]_vars

\* C9: when a submission has succeeded, has_taken_test is true for the
\* student who attempted and is unchanged for every other student.
C9_OnlyOwnerMarkedTaken ==
    [][\A c \in Clients :
        SubmissionCompletes(c) =>
            \A s \in DOMAIN students :
                students'[s].has_taken_test =
                    (students[s].has_taken_test \/ s = att[c].student)]_vars

\* C10: an attempt page shows questions and runs its countdown only while
\* sessionStorage holds a (sessionId, studentId, testId) triple that names
\* a test_sessions row of that student and test, for the test of the page.
C10_AttemptNeedsValidReference ==
    \A c \in Clients :
        (page[c] \in AttemptPages /\ att[c].pc = "ready") =>
            LET st == sessionStorage[c]
            IN  /\ st.sessionId \in SessionIds
                /\ st.testId = testId[c]
                /\ test_sessions[st.sessionId].student_id = st.studentId
                /\ test_sessions[st.sessionId].test_id = st.testId

\* C11: no login submitted at an instant outside a window whose two bounds
\* are set has succeeded (created or reused a session).
C11_LoginHonoursWindow ==
    \A c \in Clients :
        login[c].result = "ok" => ~OutsideWindowBoth(login[c].test, login[c].at)

\* Invocation k of tab c gets its test_sessions update through in this step.
SessionWritten(c, k) ==
    /\ k \in 1..Len(subs[c])
    /\ subs[c][k].pc = "session"
    /\ \/ /\ Len(subs'[c]) = Len(subs[c])
          /\ subs'[c][k].pc = "student"
       \/ /\ subs'[c] = Remove(subs[c], k)
          /\ page'[c] = "complete"

\* C12: a handleSubmit invocation that ends on a failed write leaves the
\* attempt page with the failure toast, submitting reset, and the answers,
\* the question shown and the stored items as they were; a click on Submit
\* scores the answers in memory; and an invocation whose session update
\* succeeds persists its score and total in the logged-in student's row.
C12_FailureKeepsAttempt ==
    [][\A c \in Clients :
        /\ ( /\ page[c] \in AttemptPages
             /\ page'[c] = page[c]
             /\ Len(subs'[c]) < Len(subs[c]) )
           => /\ toast'[c] = "SubmitFailed"
              /\ att'[c] = [att[c] EXCEPT !.submitting = FALSE]
              /\ sessionStorage'[c] = sessionStorage[c]
        /\ ( /\ Len(subs'[c]) = Len(subs[c]) + 1
             /\ att'[c].timeLeft = att[c].timeLeft
             /\ att'[c].timerOn = att[c].timerOn )
           => subs'[c][Len(subs'[c])].score = Score(Questions(c), att[c].answers)
        /\ \A k \in 1..Len(subs[c]) :
            (SessionWritten(c, k) /\ att[c].student # NoValue) =>
                \E i \in SessionIds :
                    /\ test_sessions'[i].student_id = att[c].student
                    /\ test_sessions'[i].test_id = subs[c][k].test
                    /\ test_sessions'[i].completed_at
                    /\ test_sessions'[i].total_score = subs[c][k].score
                    /\ test_sessions'[i].total_questions = subs[c][k].total]_vars

\* after a failed submission, a retry with an answer right has its session
\* update through
C12_Witness ==
    \E c \in Clients :
        /\ page[c] \in AttemptPages
        /\ toast[c] = "SubmitFailed"
        /\ Len(subs[c]) = 1
        /\ subs[c][1].pc = "student"
        /\ subs[c][1].score >= 1
        /\ subs[c][1].score = Score(Questions(c), att[c].answers)

\* C13: a login submitted with a pair that matches no student row ends
\* rejected in the step that looks the student up: with the credentials
\* failure of its page ("Invalid credentials" / "Failed to verify student
\* credentials"), unless the test check or its request failed before; the
\* step inserts no test_sessions row, stores nothing and stays on the login
\* page; no handler is past the lookup with such a pair.
C13_UnknownCredentialsRejected ==
    [][\A c \in Clients :
        /\ login'[c].pc \in {"session", "insert", "sessionNext", "insertNext"}
            => login'[c].cred # NoValue
        /\ ( /\ login'[c] # login[c]
             /\ login'[c].cred = NoValue
             /\ login'[c].result # "none" )
            => /\ login'[c].pc = "idle"
               /\ login'[c].result \in
                    {"InvalidCredentials", "CredentialsFailed", "Inactive", "error"}
               /\ (login'[c].result = "Inactive" => ~tests[testId[c]].is_active)
               /\ (login'[c].result \in {"Inactive", "error"} => page[c] = "login")
               /\ test_sessions' = test_sessions
               /\ sessionStorage' = sessionStorage
               /\ page'[c] = page[c]]_vars

\* a login with an unknown pair was refused on an active test
C13_Witness ==
    \E c \in Clients :
        /\ login[c].cred = NoValue
        /\ login[c].result \in {"InvalidCredentials", "CredentialsFailed"}
        /\ tests[login[c].test].is_active
        /\ test_sessions = <<>>

\* C14: once a login has succeeded, sessionStorage of its tab holds the id
\* of the session it returned, the authenticated student's id and name, and
\* the test's id.
C14_LoginStoresReference ==
    \A c \in Clients :
        login[c].result = "ok" =>
            sessionStorage[c] =
                [sessionId |-> login[c].sessionId, studentId |-> login[c].student,
                 studentName |-> login[c].student, testId |-> login[c].test]

\* The countdown of tab c reaches 0 in this step and calls handleSubmit.
TimeoutSubmits(c) ==
    /\ page[c] \in AttemptPages
    /\ att[c].pc = "ready"
    /\ Len(subs'[c]) = Len(subs[c]) + 1
    /\ att'[c].timeLeft = 0
    /\ \/ att[c].timeLeft # 0
       \/ att'[c].timerOn # att[c].timerOn

\* C15: the score of the submission the timeout invokes is the score of the
\* answer vector in memory at that moment, the one a click would submit.
C15_TimeoutScoresCurrentAnswers ==
    [][\A c \in Clients :
        TimeoutSubmits(c) =>
            subs'[c][Len(subs'[c])].score = Score(Questions(c), att[c].answers)]_vars

\* C16: every loaded attempt whose user never submits comes to an
\* automatic submission.
C16_CountdownEndsInSubmission ==
    \A c \in Clients :
        (page[c] \in AttemptPages /\ att[c].pc = "ready") ~> (subs[c] # <<>>)

\* C17: a test_sessions row that is completed is never written again, and
\* no row is ever deleted.
C17_ClosedRowNeverRewritten ==
    [][/\ Len(test_sessions') >= Len(test_sessions)
       /\ \A i \in SessionIds :
            test_sessions[i].completed_at => test_sessions'[i] = test_sessions[i]]_vars

\* C18: an attempt page gets its test loaded (questions shown, countdown
\* set) only at an instant when the test is active and not outside a window
\* whose two bounds are set.
C18_AttemptLoadRechecksTest ==
    [][\A c \in Clients :
        ( /\ page'[c] \in AttemptPages
          /\ att[c].pc # "ready"
          /\ att'[c].pc = "ready" )
        => /\ tests[testId[c]].is_active
           /\ ~OutsideWindowBoth(testId[c], clock)]_vars

\* C19: a page load is refused on account of the time ("not started yet" /
\* "has ended", and the tab sent home) only for a test whose start_time and
\* end_time are both set.
C19_NoWindowNoTimeRefusal ==
    [][\A c \in Clients :
        ( /\ page[c] # "home"
          /\ page'[c] = "home"
          /\ toast'[c] \in {"NotStarted", "Ended"} )
        => /\ tests[testId[c]].start_time # NoTime
           /\ tests[testId[c]].end_time # NoTime]_vars

\* C20: while an attempt is loaded, a step changes the answer of a slot only
\* if that slot is the current question's, the step is neither a navigation
\* nor a tick, and the slot then holds an option; every other slot keeps
\* its answer.
C20_AnswersChangeOnlyBySelection ==
    [][\A c \in Clients :
        ( /\ page[c] \in AttemptPages
          /\ page'[c] = page[c]
          /\ att[c].pc = "ready"
          /\ att'[c].pc = "ready" )
        => \A i \in 1..(MaxQuestions + 1) :
            At(att'[c].answers, i) # At(att[c].answers, i) =>
                /\ i = att[c].currentQuestion + 1
                /\ att'[c].currentQuestion = att[c].currentQuestion
                /\ att'[c].timeLeft = att[c].timeLeft
                /\ At(att'[c].answers, i) \in Options]_vars

\* both questions answered, the countdown has ticked, and the user is back
\* on the first question
C20_Witness ==
    \E c \in Clients :
        /\ page[c] \in AttemptPages
        /\ att[c].pc = "ready"
        /\ At(att[c].answers, 1) = 1
        /\ At(att[c].answers, 2) = 0
        /\ att[c].currentQuestion = 0
        /\ att[c].timeLeft = 1

\* The attempt page of tab c gets its test loaded in this step.
AttemptLoads(c) ==
    /\ page'[c] \in AttemptPages
    /\ att[c].pc # "ready"
    /\ att'[c].pc = "ready"

\* The attempt of tab c is loaded before and after this step.
AttemptGoesOn(c) ==
    /\ page[c] \in AttemptPages
    /\ page'[c] = page[c]
    /\ att[c].pc = "ready"
    /\ att'[c].pc = "ready"

\* C21: a load sets the countdown to duration_minutes minutes and leaves
\* every question's slot unset; while the attempt goes on, a step leaves the
\* countdown alone or lowers it by exactly 1, and it never is below 0.
C21_CountdownStartsAndDecrements ==
    [][\A c \in Clients :
        /\ AttemptLoads(c) =>
            /\ att'[c].timeLeft = tests[testId[c]].duration_minutes * SecondsPerMinute
            /\ \A i \in 1..Len(Questions(c)) :
                At(att'[c].answers, i) \in {Undefined, Sentinel}
        /\ AttemptGoesOn(c) =>
            /\ att'[c].timeLeft \in {att[c].timeLeft, att[c].timeLeft - 1}
            /\ att'[c].timeLeft >= 0]_vars

\* a two-question attempt of two minutes, one tick after its load
C21_Witness ==
    \E c \in Clients :
        /\ page[c] \in AttemptPages
        /\ att[c].pc = "ready"
        /\ Len(Questions(c)) = 2
        /\ tests[testId[c]].duration_minutes = 2
        /\ att[c].timeLeft = 2 * SecondsPerMinute - 1
        /\ \A i \in 1..2 : At(att[c].answers, i) \in {Undefined, Sentinel}

\* Some test_sessions row of test t is completed.
HasCompletedSession(t) ==
    \E i \in SessionIds :
        /\ test_sessions[i].test_id = t
        /\ test_sessions[i].completed_at

\* C22: the step that completes a submission leaves sessionId, studentId,
\* studentName and testId absent from sessionStorage, and an attempt page
\* entered without them for a test that has a completed session does not
\* load the attempt.
C22_SubmissionClearsReference ==
    [][\A c \in Clients :
        /\ SubmissionCompletes(c) => sessionStorage'[c] = EmptyStorage
        /\ (/\ AttemptLoads(c)
            /\ HasCompletedSession(testId[c])) =>
                sessionStorage[c] # EmptyStorage]_vars

\* The load of the attempt page of tab c, its session verified, ends in a
\* refusal in this step.
LoadRefused(c) ==
    /\ page[c] = "attempt"
    /\ att[c].pc = "fetch"
    /\ att'[c].pc \notin {"ready", "crashed"}

\* C23: a verified attempt page whose test load is refused (inactive test,
\* instant outside the window, failed read) goes to the login page or home
\* with the attempt state and the four stored fields discarded.
C23_RefusedLoadDiscardsState ==
    [][\A c \in Clients :
        LoadRefused(c) =>
            /\ page'[c] \in {"login", "home"}
            /\ att'[c] = NoAttempt
            /\ sessionStorage'[c] = EmptyStorage]_vars

\* Student s has a completed test_sessions row for test t.
HasCompleted(s, t) ==
    \E i \in SessionIds :
        /\ test_sessions[i].test_id = t
        /\ test_sessions[i].student_id = s
        /\ test_sessions[i].completed_at

\* C24: no step inserts a test_sessions row for a student and a test that
\* already have a completed row, and no login handler ends successfully
\* for such a pair.
C24_NoRetake ==
    [][/\ \A i \in 1..Len(test_sessions') :
            i > Len(test_sessions) =>
                ~HasCompleted(test_sessions'[i].student_id, test_sessions'[i].test_id)
       /\ \A c \in Clients :
            (login[c].result # "ok" /\ login'[c].result = "ok") =>
                ~HasCompleted(login'[c].student, login'[c].test)]_vars

CountingDown(c) ==
    /\ page[c] \in AttemptPages
    /\ att[c].pc = "ready"
    /\ \E i \in SessionIds :
        /\ test_sessions[i].test_id = testId[c]
        /\ ~test_sessions[i].completed_at

\* C26: while the session stays open, a countdown that has come down to x
\* seconds never shows more than x seconds again, whatever reloads of the
\* attempt page happen in between (so no more than duration_minutes minutes
\* of countdown elapse before the submission).
C26_CountdownNotRenewed ==
    \A c \in Clients, x \in 0..(MaxDuration * SecondsPerMinute) :
        []((CountingDown(c) /\ att[c].timeLeft <= x) =>
            [](CountingDown(c) => att[c].timeLeft <= x))

\* Tab c shows the login form, the attempt page with its test set, or the
\* home page.
Rests(c) ==
    \/ page[c] = "home"
    \/ page[c] = "login" /\ login[c].pc = "idle"
    \/ page[c] = "attempt" /\ att[c].pc \in {"ready", "crashed"}

\* C27: whatever the four stored items hold, a tab that enters the login
\* page or the attempt page eventually shows the login form, the attempt or
\* the home page.
C27_RedirectsSettle ==
    \A c \in Clients : (page[c] # "closed") ~> Rests(c)

\* The attempt component of tab c holds its test (loading is over).
TestSet(c) ==
    /\ page[c] \in AttemptPages
    /\ att[c].pc \in {"ready", "crashed"}

\* C28: whenever an attempt component holds its test, currentQuestion is an
\* index of the test's question list: 0 <= currentQuestion < length.
C28_CurrentQuestionInRange ==
    \A c \in Clients :
        TestSet(c) =>
            /\ 0 <= att[c].currentQuestion
            /\ att[c].currentQuestion < Len(Questions(c))

====
